---- MODULE Spec2Model ----
(***************************************************************************)
(* Model of the consensus extraction loop of extractor.ts.                 *)
(*                                                                         *)
(* A text is a sequence of one-character strings.  A sample content is a   *)
(* record: Some(text) for a completion, Null for an absent one.            *)
(***************************************************************************)
EXTENDS Integers, Sequences, FiniteSets, TLC

\* ------------------------------------------------------------------ bounds
\* largest config.maxIterations tried
MaxIter == 2
\* largest config.numRequests tried (batch size)
MaxReq == 3
\* largest config.maxTokens / config.minTokens tried
MaxTok == 4
\* longest input text of the whitespace normalizer's own specification
MaxLen == 4
\* largest batch of the consensus resolver's own specification
MaxBatch == 3

\* ------------------------------------------------------- program constants
\* makeRequest(..., maxRetries = 5)
maxRetries == 5
\* trimmed.length > 50 && prefill.includes(trimmed.slice(0, 50))
LoopMinLen == 50

\* ------------------------------------------------------------------- texts
SP == " "
NL == "\n"
TAB == "\t"

\* what String.prototype.trimEnd / trimStart strip, within the alphabet used
WhiteSpace == {SP, NL, TAB}

Max(a, b) == IF a >= b THEN a ELSE b

RECURSIVE Pow2(_)
Pow2(k) == IF k = 0 THEN 1 ELSE 2 * Pow2(k - 1)

RECURSIVE Rep(_, _)
Rep(w, n) == IF n = 0 THEN <<>> ELSE w \o Rep(w, n - 1)

IsPrefix(p, s) == Len(p) <= Len(s) /\ SubSeq(s, 1, Len(p)) = p

\* String.prototype.includes
Includes(s, seg) ==
    \E i \in 0..(Len(s) - Len(seg)) : SubSeq(s, i + 1, i + Len(seg)) = seg

\* text.replace(/c+/g, c): every run of c becomes a single c (a c that
\* follows a c is dropped)
CollapseRuns(s, c) ==
    LET tagged == [i \in 1..Len(s) |-> <<s[i], i > 1 /\ s[i] = c /\ s[i - 1] = c>>]
        kept == SelectSeq(tagged, LAMBDA p : ~p[2])
    IN  [i \in 1..Len(kept) |-> kept[i][1]]

\* index of the first sep in s, 0 when there is none
IndexOf(s, sep) ==
    IF \E i \in DOMAIN s : s[i] = sep
    THEN CHOOSE i \in DOMAIN s : s[i] = sep /\ \A j \in 1..(i - 1) : s[j] # sep
    ELSE 0

\* String.prototype.split(sep): the pieces between the separators
RECURSIVE Split(_, _)
Split(s, sep) ==
    LET i == IndexOf(s, sep)
    IN  IF i = 0 THEN <<s>>
        ELSE <<SubSeq(s, 1, i - 1)>> \o Split(SubSeq(s, i + 1, Len(s)), sep)

\* Array.prototype.join(sep)
RECURSIVE Join(_, _)
Join(parts, sep) ==
    IF Len(parts) = 0 THEN <<>>
    ELSE IF Len(parts) = 1 THEN parts[1]
    ELSE parts[1] \o <<sep>> \o Join(Tail(parts), sep)

\* String.prototype.trimEnd
RECURSIVE TrimEnd(_)
TrimEnd(s) ==
    IF Len(s) > 0 /\ s[Len(s)] \in WhiteSpace
    THEN TrimEnd(SubSeq(s, 1, Len(s) - 1))
    ELSE s

\* String.prototype.trimStart
RECURSIVE TrimStart(_)
TrimStart(s) ==
    IF Len(s) > 0 /\ s[1] \in WhiteSpace THEN TrimStart(Tail(s)) ELSE s

\* String.prototype.lastIndexOf(c), 0-based, -1 when absent
LastIndexOf(s, c) ==
    IF \E i \in DOMAIN s : s[i] = c
    THEN (CHOOSE i \in DOMAIN s : s[i] = c /\ \A j \in (i + 1)..Len(s) : s[j] # c) - 1
    ELSE -1

normalizeWhitespace(text) ==
    LET noBlank == CollapseRuns(text, NL)
        oneSpace == CollapseRuns(noBlank, SP)
        lines == Split(oneSpace, NL)
        trimmedLines == [i \in 1..Len(lines) |-> TrimEnd(lines[i])]
    IN  Join(trimmedLines, NL)

trimToWordBoundary(text) ==
    IF Len(text) = 0 THEN text
    ELSE LET lastSpace == Max(Max(LastIndexOf(text, SP), LastIndexOf(text, NL)),
                              LastIndexOf(text, TAB))
         IN  IF lastSpace > 0 THEN SubSeq(text, 1, lastSpace + 1) ELSE text


\* ----------------------------------------------------------------- samples
\* RequestResult.content: string | null
Some(t) == [null |-> FALSE, text |-> t]
Null == [null |-> TRUE, text |-> <<>>]

Range(s) == {s[i] : i \in DOMAIN s}

Count(s, x) == Cardinality({i \in DOMAIN s : s[i] = x})

\* the keys of a Map filled by walking s: distinct values in first-seen order
RECURSIVE Keys(_)
Keys(s) ==
    IF Len(s) = 0 THEN <<>>
    ELSE LET front == Keys(SubSeq(s, 1, Len(s) - 1))
         IN  IF s[Len(s)] \in Range(front) THEN front
             ELSE Append(front, s[Len(s)])

\* [...counts.entries()] of the Map counting the elements of s
Entries(s) ==
    LET keys == Keys(s)
    IN  [i \in 1..Len(keys) |-> [key |-> keys[i], n |-> Count(s, keys[i])]]

\* variant of SortByCountDesc: the entries are left in insertion order
SortByCountDesc_Unsorted(es) == es

\* entries.sort((a, b) => b[1] - a[1]): descending by count, and stable, so
\* entries of equal count keep their insertion order
RECURSIVE SortByCountDesc(_)
SortByCountDesc(es) ==
    IF Len(es) = 0 THEN <<>>
    ELSE LET front == SortByCountDesc(SubSeq(es, 1, Len(es) - 1))
             e == es[Len(es)]
             k == Cardinality({i \in DOMAIN front : front[i].n >= e.n})
         IN  SubSeq(front, 1, k) \o <<e>> \o SubSeq(front, k + 1, Len(front))

\* variant of FirstMeeting: the count is not compared with the threshold
FirstMeeting_NoThreshold(sorted, threshold, from) ==
    IF Len(sorted) > 0 THEN 1 ELSE 0

\* for (const [normResponse, count] of sorted) if (count >= threshold): index of
\* the first entry whose count meets the threshold, 0 when none does
RECURSIVE FirstMeeting(_, _, _)
FirstMeeting(sorted, threshold, from) ==
    IF from > Len(sorted) THEN 0
    ELSE IF sorted[from].n >= threshold THEN from
    ELSE FirstMeeting(sorted, threshold, from + 1)

\* variant of TopCount: the tally of the last entry
TopCount_Last(sorted) == IF Len(sorted) > 0 THEN sorted[Len(sorted)].n ELSE 0

\* sorted[0]?.[1] || 0
TopCount(sorted) == IF Len(sorted) > 0 THEN sorted[1].n ELSE 0

\* variant of findConsensus: the representative is the first matching original
findConsensus_FirstMatching(responses, threshold) ==
    LET valid == SelectSeq(responses, LAMBDA r : ~r.null)
        normalized == [i \in 1..Len(valid) |-> normalizeWhitespace(valid[i].text)]
        sorted == SortByCountDesc(Entries(normalized))
        hit == FirstMeeting(sorted, threshold, 1)
    IN  IF Len(valid) = 0 THEN [consensus |-> Null, count |-> 0]
        ELSE IF hit > 0
        THEN LET first == CHOOSE i \in DOMAIN valid :
                              /\ normalized[i] = sorted[hit].key
                              /\ \A j \in 1..(i - 1) : normalized[j] # sorted[hit].key
             IN  [consensus |-> valid[first], count |-> sorted[hit].n]
        ELSE [consensus |-> Null, count |-> sorted[1].n]

findConsensus(responses, threshold) ==
    LET \* responses.filter((r) => r !== null)
        valid == SelectSeq(responses, LAMBDA r : ~r.null)
        normalized == [i \in 1..Len(valid) |-> normalizeWhitespace(valid[i].text)]
        sorted == SortByCountDesc(Entries(normalized))
        hit == FirstMeeting(sorted, threshold, 1)
    IN  IF Len(valid) = 0 THEN [consensus |-> Null, count |-> 0]
        ELSE IF hit > 0
        THEN LET idx == {i \in DOMAIN valid : normalized[i] = sorted[hit].key}
                 matching == [k \in 1..Cardinality(idx) |->
                                valid[CHOOSE i \in idx :
                                        Cardinality({j \in idx : j < i}) = k - 1]]
                 bestOrig == SortByCountDesc(Entries(matching))[1].key
             IN  [consensus |-> bestOrig, count |-> sorted[hit].n]
        ELSE [consensus |-> Null, count |-> TopCount(sorted)]


\* -------------------------------------------------------------- the run
VARIABLES
    env,            \* the service: the contents it can return, the errors it can throw
    cfg,            \* Config, as main() hands it to runExtraction
    prefill,        \* the Buffer: let prefill
    iteration,      \* for (let iteration = 1; ...)
    currentTokens,  \* let currentTokens
    results,        \* fetchResponses: the contents of results[], in order
    lastId,         \* fetchResponses: the id of the last entry of results[]
    attempt,        \* makeRequest: for (let attempt = 0; ...)
    errors,         \* makeRequest: the names of the errors the pending call caught
    waits,          \* makeRequest: the Bun.sleep waits (ms) of the pending call
    pc,             \* where runExtraction stands
    outcome,        \* the terminal condition of the run, "Running" before it
    saveCalls,      \* the arguments of the savePrefill calls so far
    logSaves,       \* the number of saveLog calls that wrote the transcript
    appended,       \* the texts appended to prefill so far
    retries,        \* adaptive retries made in the current iteration
    resolverCalls,  \* the number of findConsensus calls so far
    text,           \* normalizer specification: the input string
    norm,           \* normalizer specification: the successive normal forms
    cut,            \* trimmer specification: the result of trimToWordBoundary
    cbatch,         \* resolver specification: the batch
    cthreshold,     \* resolver specification: the threshold
    cres            \* resolver specification: the results of findConsensus

runVars == <<env, cfg, prefill, iteration, currentTokens, results, lastId, attempt,
             errors, waits, pc, outcome, saveCalls, logSaves, appended, retries,
             resolverCalls>>
normVars == <<text, norm, cut>>
consVars == <<cbatch, cthreshold, cres>>
vars == <<runVars, normVars, consVars>>

Word == <<"a", "b", "c", "d", SP>>

\* the known starting section of the document (a short stand-in of the same
\* shape: words separated by single spaces, longer than a loop segment)
SEED_PREFILL == Rep(Word, 11)

\* the content of the file --prefill-file names
SavedPrefill == <<"x", SP>>

NoFile == "null"
PrefillFile == "prefill.txt"

loadPrefill(prefillFile) ==
    IF prefillFile # NoFile THEN SavedPrefill ELSE SEED_PREFILL

\* completions the service may return: the empty one, a blank one, a short one
\* with doubled spaces that ends in a partial word, and a long one that repeats
\* the seed
Completions ==
    { <<>>,
      <<SP>>,
      <<SP, SP, "x", SP, "y", SP>>,
      Rep(Word, 11) \o <<"a", "b">> }

Contents == {Some(t) : t \in Completions} \cup {Null}

\* the names of the errors client.messages.create can throw: an API or network
\* failure, and the abort of the request by its AbortSignal
ApiError == "APIError"
AbortError == "AbortError"

\* RequestResult.id: response.id of a response, null after the last failure
MsgId == "msg"
NullId == "null"
NoId == "none"

\* the service of a run: every completion, failures that are API errors
Service == [contents |-> Contents, errors |-> {ApiError}]

PctSet == {50, 100}

Configs ==
    { c \in [maxIterations : 0..MaxIter,
             prefillFile : {NoFile, PrefillFile},
             debug : BOOLEAN,
             maxTokens : {MaxTok},
             consensusPct : PctSet,
             numRequests : 1..MaxReq,
             adaptive : BOOLEAN,
             minTokens : {1, MaxTok - 1, MaxTok, MaxTok + 1}] :
        ~c.adaptive => c.minTokens = 1 }

\* variant of Threshold: the lower bound of 1 is left out
Threshold_NoFloor(c) == (c.numRequests * c.consensusPct) \div 100

\* Math.max(1, Math.floor((numRequests * consensusPct) / 100))
Threshold(c) == Max(1, (c.numRequests * c.consensusPct) \div 100)

validCount(responses) == Len(SelectSeq(responses, LAMBDA r : ~r.null))

\* variant of Truthy: only null is no consensus
Truthy_NotNull(content) == ~content.null

\* if (consensus): null and the empty string are both falsy
Truthy(content) == ~content.null /\ Len(content.text) > 0

\* normalizeWhitespace then trimToWordBoundary of the consensus
Trimmed(consensus) == trimToWordBoundary(normalizeWhitespace(consensus.text))

\* trimmed.length > 50 && prefill.includes(trimmed.slice(0, 50))
LoopFound(trimmed, buffer) ==
    /\ Len(trimmed) > LoopMinLen
    /\ Includes(buffer, SubSeq(trimmed, 1, LoopMinLen))

\* variant of AppendTo: the buffer is stored as it was sent (trimEnd)
AppendTo_TrimmedBuffer(buffer, trimmed) == TrimEnd(buffer) \o TrimStart(trimmed)

\* prefill += trimmed.trimStart()
AppendTo(buffer, trimmed) == buffer \o TrimStart(trimmed)

\* variant of Backoff: the wait grows by one second per attempt
Backoff_Linear(k) == (k + 1) * 1000

\* const wait = 2 ** attempt * 1000
Backoff(k) == Pow2(k) * 1000

\* variant of InLoop: the last iteration is left out
InLoop_Exclusive(i, c) == i < c.maxIterations

\* the condition of the for loop: iteration <= config.maxIterations
InLoop(i, c) == i <= c.maxIterations

\* variant of Halve: the budget is kept
Halve_Keep(tokens, minTokens) == Max(minTokens, tokens)

\* variant of Halve: the floor is not applied
Halve_NoFloor(tokens, minTokens) == tokens \div 2

\* Math.max(config.minTokens, Math.floor(currentTokens / 2))
Halve(tokens, minTokens) == Max(minTokens, tokens \div 2)


\* values of the variables a specification does not use
RunIdle ==
    /\ env = [contents |-> {Null}, errors |-> {ApiError}]
    /\ lastId = NoId
    /\ errors = <<>>
    /\ cfg = [maxIterations |-> 0, prefillFile |-> NoFile, debug |-> FALSE,
              maxTokens |-> 1, consensusPct |-> 50, numRequests |-> 1,
              adaptive |-> FALSE, minTokens |-> 1]
    /\ prefill = <<>>
    /\ iteration = 1
    /\ currentTokens = 1
    /\ results = <<>>
    /\ attempt = 0
    /\ waits = <<>>
    /\ pc = "done"
    /\ outcome = "Running"
    /\ saveCalls = <<>>
    /\ logSaves = 0
    /\ appended = <<>>
    /\ retries = 0
    /\ resolverCalls = 0

NormIdle == text = <<>> /\ norm = <<>> /\ cut = <<>>

ConsIdle == cbatch = <<>> /\ cthreshold = 0 /\ cres = <<>>

\* runExtraction up to the first request of the first iteration; with
\* maxIterations < 1 the for loop is skipped and the run goes to its last save
Init ==
    /\ env = Service
    /\ cfg \in Configs
    /\ lastId = NoId
    /\ errors = <<>>
    /\ prefill = loadPrefill(cfg.prefillFile)
    /\ iteration = 1
    /\ currentTokens = cfg.maxTokens
    /\ results = <<>>
    /\ attempt = 0
    /\ waits = <<>>
    /\ pc = IF InLoop(1, cfg) THEN "fetch" ELSE "save"
    /\ outcome = IF InLoop(1, cfg) THEN "Running" ELSE "MaxIterationsReached"
    /\ saveCalls = <<>>
    /\ logSaves = 0
    /\ appended = <<>>
    /\ retries = 0
    /\ resolverCalls = 0
    /\ NormIdle
    /\ ConsIdle

\* fetchResponses: the content of one finished makeRequest joins results; after
\* the last one runExtraction goes on (saveDebugResponses when debugDir is set)
Deliver(content, id) ==
    /\ results' = Append(results, content)
    /\ lastId' = id
    /\ attempt' = 0
    /\ errors' = <<>>
    /\ waits' = <<>>
    /\ pc' = IF Len(results) + 1 < cfg.numRequests THEN "fetch"
             ELSE IF cfg.debug THEN "debug" ELSE "evaluate"

\* makeRequest: client.messages.create returns; content is the text of the
\* first block, null when that block is no text
RequestOk ==
    /\ pc = "fetch"
    /\ \E content \in env.contents : Deliver(content, MsgId)
    /\ UNCHANGED <<cfg, prefill, iteration, currentTokens, outcome, saveCalls,
                   logSaves, appended, retries, resolverCalls>>
    /\ UNCHANGED <<env, normVars, consVars>>

\* makeRequest: client.messages.create throws and attempts are left: sleep
\* 2 ** attempt * 1000 ms, then try again
RequestRetry ==
    /\ pc = "fetch"
    /\ attempt < maxRetries - 1
    /\ \E e \in env.errors : errors' = Append(errors, e)
    /\ waits' = Append(waits, Backoff(attempt))
    /\ attempt' = attempt + 1
    /\ UNCHANGED <<cfg, prefill, iteration, currentTokens, results, pc, outcome,
                   saveCalls, logSaves, appended, retries, resolverCalls>>
    /\ UNCHANGED <<env, lastId, normVars, consVars>>

\* variant of RequestGiveUp: the error of the last attempt is thrown on
RequestGiveUp_Throws ==
    /\ pc = "fetch"
    /\ ~(attempt < maxRetries - 1)
    /\ pc' = "catch"
    /\ outcome' = "ErrorTerminated"
    /\ results' = <<>>
    /\ lastId' = NoId
    /\ UNCHANGED <<cfg, prefill, iteration, currentTokens, attempt, waits,
                   saveCalls, logSaves, appended, retries, resolverCalls>>
    /\ UNCHANGED <<env, errors, normVars, consVars>>

\* makeRequest: client.messages.create throws on the last attempt: the sample
\* is absent
RequestGiveUp ==
    /\ pc = "fetch"
    /\ ~(attempt < maxRetries - 1)
    /\ Deliver(Null, NullId)
    /\ UNCHANGED <<cfg, prefill, iteration, currentTokens, outcome, saveCalls,
                   logSaves, appended, retries, resolverCalls>>
    /\ UNCHANGED <<env, normVars, consVars>>

\* await saveDebugResponses(debugDir, iteration, results) returns
DebugSaveOk ==
    /\ pc = "debug"
    /\ pc' = "evaluate"
    /\ UNCHANGED <<cfg, prefill, iteration, currentTokens, results, attempt, waits,
                   outcome, saveCalls, logSaves, appended, retries, resolverCalls>>
    /\ UNCHANGED <<env, lastId, errors, normVars, consVars>>

\* await saveDebugResponses throws (mkdir or writeFile fails): to the catch
DebugSaveThrows ==
    /\ pc = "debug"
    /\ pc' = "catch"
    /\ results' = <<>>
    /\ lastId' = NoId
    /\ outcome' = "ErrorTerminated"
    /\ UNCHANGED <<cfg, prefill, iteration, currentTokens, attempt, waits,
                   saveCalls, logSaves, appended, retries, resolverCalls>>
    /\ UNCHANGED <<env, errors, normVars, consVars>>

\* if (validCount < threshold) { ...; await savePrefill(...); return; }
InsufficientSamples ==
    /\ pc = "evaluate"
    /\ validCount(results) < Threshold(cfg)
    /\ outcome' = "InsufficientSamples"
    /\ pc' = "save"
    /\ results' = <<>>
    /\ lastId' = NoId
    /\ UNCHANGED <<cfg, prefill, iteration, currentTokens, attempt, waits,
                   saveCalls, logSaves, appended, retries, resolverCalls>>
    /\ UNCHANGED <<env, errors, normVars, consVars>>

\* the batch is evaluated: const { consensus, count } = findConsensus(...)
Resolved ==
    /\ pc = "evaluate"
    /\ ~(validCount(results) < Threshold(cfg))
    /\ resolverCalls' = resolverCalls + 1

\* consensus, no loop: append, break, and the for loop's next round (or its end)
ConsensusAppend ==
    /\ Resolved
    /\ LET found == findConsensus(results, Threshold(cfg))
           trimmed == Trimmed(found.consensus)
       IN  /\ Truthy(found.consensus)
           /\ ~LoopFound(trimmed, prefill)
           /\ prefill' = AppendTo(prefill, trimmed)
           /\ appended' = Append(appended, TrimStart(trimmed))
    /\ iteration' = iteration + 1
    /\ IF InLoop(iteration + 1, cfg)
       THEN /\ currentTokens' = cfg.maxTokens
            /\ retries' = 0
            /\ results' = <<>>
            /\ lastId' = NoId
            /\ pc' = "fetch"
            /\ UNCHANGED outcome
       ELSE /\ outcome' = "MaxIterationsReached"
            /\ results' = <<>>
            /\ lastId' = NoId
            /\ pc' = "save"
            /\ UNCHANGED <<currentTokens, retries>>
    /\ UNCHANGED <<cfg, attempt, waits, saveCalls, logSaves>>
    /\ UNCHANGED <<env, errors, normVars, consVars>>

\* consensus whose leading segment is already in the buffer: save and return
LoopDetected ==
    /\ Resolved
    /\ LET found == findConsensus(results, Threshold(cfg))
       IN  /\ Truthy(found.consensus)
           /\ LoopFound(Trimmed(found.consensus), prefill)
    /\ outcome' = "LoopDetected"
    /\ pc' = "save"
    /\ results' = <<>>
    /\ lastId' = NoId
    /\ UNCHANGED <<cfg, prefill, iteration, currentTokens, attempt, waits,
                   saveCalls, logSaves, appended, retries>>
    /\ UNCHANGED <<env, errors, normVars, consVars>>

\* variant of NoConsensusAdaptive: a budget at the floor is retried as well
NoConsensusAdaptive_AtFloor ==
    /\ Resolved
    /\ ~Truthy(findConsensus(results, Threshold(cfg)).consensus)
    /\ cfg.adaptive /\ currentTokens >= cfg.minTokens
    /\ currentTokens' = Halve(currentTokens, cfg.minTokens)
    /\ retries' = retries + 1
    /\ results' = <<>>
    /\ lastId' = NoId
    /\ pc' = "fetch"
    /\ UNCHANGED <<cfg, prefill, iteration, attempt, waits, outcome, saveCalls,
                   logSaves, appended>>
    /\ UNCHANGED <<env, errors, normVars, consVars>>

\* else if (config.adaptive && currentTokens > config.minTokens): halve the
\* budget and go round the while loop again
NoConsensusAdaptive ==
    /\ Resolved
    /\ ~Truthy(findConsensus(results, Threshold(cfg)).consensus)
    /\ cfg.adaptive /\ currentTokens > cfg.minTokens
    /\ currentTokens' = Halve(currentTokens, cfg.minTokens)
    /\ retries' = retries + 1
    /\ results' = <<>>
    /\ lastId' = NoId
    /\ pc' = "fetch"
    /\ UNCHANGED <<cfg, prefill, iteration, attempt, waits, outcome, saveCalls,
                   logSaves, appended>>
    /\ UNCHANGED <<env, errors, normVars, consVars>>

\* variant of NoConsensusTerminal: the run returns without saving
NoConsensusTerminal_NoSave ==
    /\ Resolved
    /\ ~Truthy(findConsensus(results, Threshold(cfg)).consensus)
    /\ ~(cfg.adaptive /\ currentTokens > cfg.minTokens)
    /\ outcome' = "NoConsensusTerminal"
    /\ pc' = "done"
    /\ results' = <<>>
    /\ lastId' = NoId
    /\ UNCHANGED <<cfg, prefill, iteration, currentTokens, attempt, waits,
                   saveCalls, logSaves, appended, retries>>
    /\ UNCHANGED <<env, errors, normVars, consVars>>

\* else: save and return
NoConsensusTerminal ==
    /\ Resolved
    /\ ~Truthy(findConsensus(results, Threshold(cfg)).consensus)
    /\ ~(cfg.adaptive /\ currentTokens > cfg.minTokens)
    /\ outcome' = "NoConsensusTerminal"
    /\ pc' = "save"
    /\ results' = <<>>
    /\ lastId' = NoId
    /\ UNCHANGED <<cfg, prefill, iteration, currentTokens, attempt, waits,
                   saveCalls, logSaves, appended, retries>>
    /\ UNCHANGED <<env, errors, normVars, consVars>>

\* await savePrefill(prefill, ...) inside the try returns: the three early
\* exits return from runExtraction, the save after the for loop falls through
SavePrefillOk ==
    /\ pc = "save"
    /\ saveCalls' = Append(saveCalls, prefill)
    /\ pc' = IF outcome = "MaxIterationsReached" THEN "finish" ELSE "done"
    /\ UNCHANGED <<cfg, prefill, iteration, currentTokens, results, attempt, waits,
                   outcome, logSaves, appended, retries, resolverCalls>>
    /\ UNCHANGED <<env, lastId, errors, normVars, consVars>>

\* await savePrefill(prefill, ...) inside the try throws: to the catch
SavePrefillThrows ==
    /\ pc = "save"
    /\ saveCalls' = Append(saveCalls, prefill)
    /\ outcome' = "ErrorTerminated"
    /\ pc' = "catch"
    /\ UNCHANGED <<cfg, prefill, iteration, currentTokens, results, attempt, waits,
                   logSaves, appended, retries, resolverCalls>>
    /\ UNCHANGED <<env, lastId, errors, normVars, consVars>>

\* variant of CatchSaveOk: the catch does not save
CatchSaveOk_NoSave ==
    /\ pc = "catch"
    /\ pc' = "finish"
    /\ UNCHANGED <<cfg, prefill, iteration, currentTokens, results, attempt, waits,
                   outcome, saveCalls, logSaves, appended, retries, resolverCalls>>
    /\ UNCHANGED <<env, lastId, errors, normVars, consVars>>

\* catch (error) { ...; await savePrefill(prefill, ...) } returns
CatchSaveOk ==
    /\ pc = "catch"
    /\ saveCalls' = Append(saveCalls, prefill)
    /\ pc' = "finish"
    /\ UNCHANGED <<cfg, prefill, iteration, currentTokens, results, attempt, waits,
                   outcome, logSaves, appended, retries, resolverCalls>>
    /\ UNCHANGED <<env, lastId, errors, normVars, consVars>>

\* the savePrefill of the catch throws: runExtraction rejects
CatchSaveThrows ==
    /\ pc = "catch"
    /\ saveCalls' = Append(saveCalls, prefill)
    /\ pc' = "done"
    /\ UNCHANGED <<cfg, prefill, iteration, currentTokens, results, attempt, waits,
                   outcome, logSaves, appended, retries, resolverCalls>>
    /\ UNCHANGED <<env, lastId, errors, normVars, consVars>>

\* log("Done!"); if (debugDir) await saveLog(debugDir)
Finish ==
    /\ pc = "finish"
    /\ logSaves' = IF cfg.debug THEN logSaves + 1 ELSE logSaves
    /\ pc' = "done"
    /\ UNCHANGED <<cfg, prefill, iteration, currentTokens, results, attempt, waits,
                   outcome, saveCalls, appended, retries, resolverCalls>>
    /\ UNCHANGED <<env, lastId, errors, normVars, consVars>>

Next ==
    \/ RequestOk
    \/ RequestRetry
    \/ RequestGiveUp
    \/ DebugSaveOk
    \/ DebugSaveThrows
    \/ InsufficientSamples
    \/ ConsensusAppend
    \/ LoopDetected
    \/ NoConsensusAdaptive
    \/ NoConsensusTerminal
    \/ SavePrefillOk
    \/ SavePrefillThrows
    \/ CatchSaveOk
    \/ CatchSaveThrows
    \/ Finish

Spec == Init /\ [][Next]_vars

\* the steps that end an await: a request returns or fails, a file operation
\* returns or throws
Await ==
    \/ RequestOk \/ RequestRetry \/ RequestGiveUp
    \/ DebugSaveOk \/ DebugSaveThrows
    \/ SavePrefillOk \/ SavePrefillThrows
    \/ CatchSaveOk \/ CatchSaveThrows
    \/ Finish

\* the synchronous evaluation of a fetched batch
Evaluate ==
    \/ InsufficientSamples
    \/ ConsensusAppend
    \/ LoopDetected
    \/ NoConsensusAdaptive
    \/ NoConsensusTerminal

\* the run when every await of it settles and the code between two awaits is
\* run: weak fairness of Await and of Evaluate, the latter written out with
\* its enabling condition pc = "evaluate"
FairSpec ==
    /\ Init /\ [][Next]_vars
    /\ WF_vars(Await)
    /\ ([]<>(pc # "evaluate") \/ []<><<Evaluate>>_vars)

\* ------------------------- the run, with a service that repeats and aborts
\* completions made to meet the loop check and the trimming: one whose trimmed
\* form is the first LoopMinLen characters of the seed, one a word longer, a
\* blank one, the empty one, and one whose only word follows a tab and a space
GuardCompletions ==
    { Rep(Word, 10) \o <<"a", "b">>,
      Rep(Word, 11) \o <<"a", "b">>,
      <<>>,
      <<SP>>,
      <<TAB, SP, "x">> }

\* a request can also fail by being aborted
GuardService ==
    [contents |-> {Some(t) : t \in GuardCompletions} \cup {Null},
     errors |-> {ApiError, AbortError}]

GuardConfigs == {c \in Configs : c.numRequests < MaxReq}

GuardInit ==
    /\ env = GuardService
    /\ cfg \in GuardConfigs
    /\ prefill = loadPrefill(cfg.prefillFile)
    /\ iteration = 1
    /\ currentTokens = cfg.maxTokens
    /\ results = <<>>
    /\ lastId = NoId
    /\ attempt = 0
    /\ errors = <<>>
    /\ waits = <<>>
    /\ pc = IF InLoop(1, cfg) THEN "fetch" ELSE "save"
    /\ outcome = IF InLoop(1, cfg) THEN "Running" ELSE "MaxIterationsReached"
    /\ saveCalls = <<>>
    /\ logSaves = 0
    /\ appended = <<>>
    /\ retries = 0
    /\ resolverCalls = 0
    /\ NormIdle
    /\ ConsIdle

SpecGuard == GuardInit /\ [][Next]_vars


\* ------------------------------------- the normalizer, on its own inputs
Alphabet == {"a", SP, TAB, NL}

Texts == UNION {[1..k -> Alphabet] : k \in 0..MaxLen}

NormInit ==
    /\ RunIdle
    /\ ConsIdle
    /\ text \in Texts
    /\ norm = <<>>
    /\ cut = <<>>

\* normalizeWhitespace applied to the input, then to its own result
Normalize ==
    /\ Len(norm) < 2
    /\ norm' = Append(norm, normalizeWhitespace(IF Len(norm) = 0 THEN text
                                                ELSE norm[Len(norm)]))
    /\ UNCHANGED <<text, cut, runVars, consVars>>

NormNext == Normalize

SpecNorm == NormInit /\ [][NormNext]_vars

\* ---------------------------------------- the trimmer, on its own inputs
TrimInit ==
    /\ RunIdle
    /\ ConsIdle
    /\ text \in Texts
    /\ norm = <<>>
    /\ cut = <<>>

\* trimToWordBoundary applied to the input
Trim ==
    /\ Len(cut) = 0
    /\ cut' = <<trimToWordBoundary(text)>>
    /\ UNCHANGED <<text, norm, runVars, consVars>>

TrimNext == Trim

SpecTrim == TrimInit /\ [][TrimNext]_vars

\* --------------------------------------- the resolver, on its own inputs
ConsCompletions ==
    { <<"a", SP, "b">>,
      <<"a", SP, SP, "b">>,
      <<"a", SP, "b", SP>>,
      <<"c">> }

ConsContents == {Some(t) : t \in ConsCompletions} \cup {Null}

ConsInit ==
    /\ RunIdle
    /\ NormIdle
    /\ cbatch \in UNION {[1..k -> ConsContents] : k \in 1..MaxBatch}
    /\ cthreshold \in 1..MaxBatch
    /\ cres = <<>>

\* findConsensus(responses, threshold) on the batch as given
Resolve ==
    /\ Len(cres) = 0
    /\ cres' = <<[batch |-> cbatch, found |-> findConsensus(cbatch, cthreshold)]>>
    /\ UNCHANGED <<cbatch, cthreshold, runVars, normVars>>

\* findConsensus on the same samples in another order
ResolveReordered ==
    /\ Len(cres) = 1
    /\ \E f \in [DOMAIN cbatch -> DOMAIN cbatch] :
          /\ \A i, j \in DOMAIN cbatch : f[i] = f[j] => i = j
          /\ LET reordered == [i \in DOMAIN cbatch |-> cbatch[f[i]]]
             IN  cres' = Append(cres, [batch |-> reordered,
                                       found |-> findConsensus(reordered, cthreshold)])
    /\ UNCHANGED <<cbatch, cthreshold, runVars, normVars>>

ConsNext == Resolve \/ ResolveReordered

SpecCons == ConsInit /\ [][ConsNext]_vars

\* ------------------------------------------------- what the claims speak of
NonFatal ==
    {"InsufficientSamples", "NoConsensusTerminal", "LoopDetected", "MaxIterationsReached"}

\* the tally of the canonical form of sample i of a batch
Tally(batch, i) ==
    Cardinality({j \in DOMAIN batch :
                    /\ ~batch[j].null
                    /\ normalizeWhitespace(batch[j].text)
                         = normalizeWhitespace(batch[i].text)})

\* the highest tally over the canonical forms of a batch, 0 when all are absent
MaxTally(batch) ==
    LET tallies == {Tally(batch, i) : i \in {j \in DOMAIN batch : ~batch[j].null}}
    IN  IF tallies = {} THEN 0 ELSE CHOOSE n \in tallies : \A m \in tallies : m <= n

\* threshold = max(1, floor(numRequests * consensusPct / 100))
ClaimThreshold(c) ==
    LET q == (c.numRequests * c.consensusPct) \div 100 IN IF q < 1 THEN 1 ELSE q

\* what a completion becomes on its way into the buffer
Derived(t) == TrimStart(trimToWordBoundary(normalizeWhitespace(t)))


\* ------------------------------------------------------------------ claims

\* C1: a run that ends in a non-fatal terminal condition (InsufficientSamples,
\* NoConsensusTerminal, LoopDetected, MaxIterationsReached) calls savePrefill
\* exactly once, with the Buffer as it is at termination: no call before the
\* condition is reached, one call with the current prefill after it.
C1_SavedExactlyOnce ==
    outcome \in NonFatal =>
        \/ pc = "save" /\ saveCalls = <<>>
        \/ pc \in {"finish", "done"} /\ saveCalls = <<prefill>>

C1_Witness ==
    /\ pc = "done"
    /\ outcome = "NoConsensusTerminal"
    /\ Len(appended) > 0
    /\ saveCalls = <<prefill>>

\* C2: every text appended to the Buffer is Derived (normalizeWhitespace,
\* trimToWordBoundary, leading whitespace removed) from a completion of the
\* batch just evaluated whose canonical form has a tally that is at least the
\* threshold and is the highest tally of that batch.
C2_OnlyConsensusAppended ==
    [][Len(appended') > Len(appended) =>
         /\ pc = "evaluate"
         /\ Len(appended') = Len(appended) + 1
         /\ \E i \in DOMAIN results :
               /\ ~results[i].null
               /\ appended'[Len(appended')] = Derived(results[i].text)
               /\ prefill' = prefill \o Derived(results[i].text)
               /\ Tally(results, i) >= ClaimThreshold(cfg)
               /\ Tally(results, i) = MaxTally(results)]_vars

C2_Witness ==
    /\ Len(appended) = 2
    /\ appended[1] = <<"x", SP>>
    /\ appended[2] = <<>>

\* C3: the Buffer is append-only: every step leaves the previous Buffer a prefix
\* of the new one, so the initial (seed or loaded) Buffer is a prefix of the
\* Buffer in every reachable state and of every value handed to savePrefill.
C3_AppendOnly ==
    /\ [][IsPrefix(prefill, prefill')]_vars
    /\ [](/\ IsPrefix(loadPrefill(cfg.prefillFile), prefill)
          /\ \A i \in DOMAIN saveCalls :
                IsPrefix(loadPrefill(cfg.prefillFile), saveCalls[i]))

C3_Witness ==
    /\ pc = "done"
    /\ cfg.prefillFile = PrefillFile
    /\ Len(appended) = 2
    /\ Len(prefill) > Len(SavedPrefill)
    /\ saveCalls = <<prefill>>

\* C4: normalizeWhitespace is idempotent: normalizing a normalized string over
\* letters, spaces, tabs and newlines changes nothing.
C4_Idempotent ==
    Len(norm) = 2 => norm[2] = norm[1]

\* C5: when the valid count is at least the threshold and the highest tally of
\* a canonical form is at least the threshold, the evaluation takes the
\* consensus path: it appends and advances, or ends as LoopDetected.
C5_ConsensusPathTaken ==
    [][(/\ pc = "evaluate"
        /\ validCount(results) >= ClaimThreshold(cfg)
        /\ MaxTally(results) >= ClaimThreshold(cfg))
         => \/ Len(appended') = Len(appended) + 1
            \/ outcome' = "LoopDetected"]_vars

\* C6: when findConsensus reaches consensus, the string it returns is an
\* original completion of the batch; among the originals with the same canonical
\* form none occurs more often, and none that occurs as often comes earlier in
\* the batch; the count is the tally of that canonical form.
C6_Representative ==
    \A k \in DOMAIN cres :
        LET b == cres[k].batch
            found == cres[k].found
            M == {i \in DOMAIN b :
                    /\ ~b[i].null
                    /\ normalizeWhitespace(b[i].text)
                         = normalizeWhitespace(found.consensus.text)}
            freq(i) == Cardinality({j \in M : b[j] = b[i]})
        IN  ~found.consensus.null =>
              /\ found.count = Cardinality(M)
              /\ \E i \in M :
                    /\ b[i] = found.consensus
                    /\ \A j \in M : freq(j) <= freq(i)
                    /\ \A j \in M : j < i => freq(j) < freq(i)

C6_Witness ==
    /\ Len(cres) = 1
    /\ cbatch = <<Some(<<"a", SP, SP, "b">>), Some(<<"a", SP, "b">>),
                  Some(<<"a", SP, "b">>)>>
    /\ cres[1].found = [consensus |-> Some(<<"a", SP, "b">>), count |-> 3]

\* the canonical form findConsensus settled on
WinningForm(found) == normalizeWhitespace(found.consensus.text)

\* the canonical forms of a batch that have the highest tally
TopForms(batch) ==
    {normalizeWhitespace(batch[i].text) :
        i \in {j \in DOMAIN batch : ~batch[j].null /\ Tally(batch, j) = MaxTally(batch)}}

C8_InsufficientSamples ==
    /\ [][(pc = "evaluate" /\ validCount(results) < ClaimThreshold(cfg)) =>
            /\ outcome' = "InsufficientSamples"
            /\ pc' = "save"
            /\ resolverCalls' = resolverCalls
            /\ retries' = retries
            /\ currentTokens' = currentTokens
            /\ iteration' = iteration
            /\ prefill' = prefill]_vars
    /\ [](outcome = "InsufficientSamples" => pc \in {"save", "done"})

C8_Witness ==
    /\ outcome = "InsufficientSamples"
    /\ pc = "done"
    /\ cfg.adaptive
    /\ currentTokens > cfg.minTokens
    /\ resolverCalls = 0
    /\ saveCalls = <<prefill>>

\* C9: in adaptive mode with 1 <= minTokens <= maxTokens, the batch of attempt k
\* of an iteration (k retries made so far) is requested with the budget
\* max(minTokens, floor(maxTokens / 2^k)), never less than minTokens, and
\* attempt 0 of every iteration with maxTokens.
C9_BudgetSequence ==
    (/\ cfg.adaptive
     /\ 1 <= cfg.minTokens /\ cfg.minTokens <= cfg.maxTokens
     /\ pc \in {"fetch", "debug", "evaluate"}) =>
        /\ currentTokens = Max(cfg.minTokens, cfg.maxTokens \div Pow2(retries))
        /\ currentTokens >= cfg.minTokens
        /\ retries = 0 => currentTokens = cfg.maxTokens

C9_Witness ==
    /\ cfg.adaptive
    /\ cfg.minTokens = 1
    /\ pc = "fetch"
    /\ iteration = 2
    /\ retries = 2
    /\ resolverCalls > 3
    /\ currentTokens = 1

\* C10: after a batch with enough valid samples in which no canonical form
\* meets the threshold, the same iteration is retried (same iteration number,
\* same Buffer) exactly when adaptive mode is on and the budget is above
\* minTokens; otherwise the run ends as NoConsensusTerminal, Buffer unchanged.
C10_RetryIffAdaptiveAboveFloor ==
    [][(/\ pc = "evaluate"
        /\ validCount(results) >= ClaimThreshold(cfg)
        /\ MaxTally(results) < ClaimThreshold(cfg))
         => IF cfg.adaptive /\ currentTokens > cfg.minTokens
            THEN /\ pc' = "fetch"
                 /\ retries' = retries + 1
                 /\ iteration' = iteration
                 /\ prefill' = prefill
                 /\ outcome' = "Running"
            ELSE /\ pc' = "save"
                 /\ outcome' = "NoConsensusTerminal"
                 /\ retries' = retries
                 /\ iteration' = iteration
                 /\ prefill' = prefill]_vars

C10_Witness ==
    /\ cfg.adaptive
    /\ cfg.minTokens = MaxTok - 1
    /\ retries = 1
    /\ currentTokens = cfg.minTokens
    /\ outcome = "NoConsensusTerminal"
    /\ pc = "done"

\* the sample findConsensus picks from the batch under evaluation
Candidate == findConsensus(results, Threshold(cfg)).consensus

\* the batch under evaluation has enough samples and a consensus is reached
ConsensusReached ==
    /\ pc = "evaluate"
    /\ validCount(results) >= Threshold(cfg)
    /\ ~Candidate.null

\* C11: whenever consensus is reached and the trimmed candidate has at least
\* LoopMinLen (50) characters the first 50 of which occur in the buffer, the
\* run ends as LoopDetected, the candidate is not appended and the next step
\* is the save, not a request
C11_LoopSignalled ==
    [][ ( /\ ConsensusReached
          /\ Len(Trimmed(Candidate)) >= LoopMinLen
          /\ Includes(prefill, SubSeq(Trimmed(Candidate), 1, LoopMinLen)) )
        => ( /\ outcome' = "LoopDetected"
             /\ prefill' = prefill
             /\ appended' = appended
             /\ pc' = "save" ) ]_vars

\* the positions of the spaces, newlines and tabs of a text
WhiteSpaceAt(s) == {i \in 1..Len(s) : s[i] \in WhiteSpace}

\* C12: trimToWordBoundary(s) is s cut right after its last space, newline or
\* tab whenever s has one at any position, and so ends in whitespace; it is s
\* itself only when s has none
C12_CutAfterLastWhiteSpace ==
    Len(cut) = 1 =>
        IF WhiteSpaceAt(text) = {}
        THEN cut[1] = text
        ELSE /\ \E i \in WhiteSpaceAt(text) :
                   /\ \A j \in WhiteSpaceAt(text) : j <= i
                   /\ cut[1] = SubSeq(text, 1, i)
             /\ cut[1][Len(cut[1])] \in WhiteSpace

\* C13: a pending makeRequest is at its call number attempt + 1 <= maxRetries,
\* every earlier call having failed; a call either fails with attempts left
\* and is followed by the next one, or returns a response and ends the
\* request, or is the failure of call maxRetries and ends it with the absent
\* sample {content: null, id: null}; in no case does the run leave its course
C13_BoundedRetries ==
    [][ pc = "fetch" =>
          /\ attempt < maxRetries /\ Len(errors) = attempt
          /\ outcome' = outcome /\ pc' \in {"fetch", "debug", "evaluate"}
          /\ \/ /\ results' = results
                /\ attempt' = attempt + 1 /\ attempt' < maxRetries
                /\ Len(errors') = attempt'
             \/ /\ Len(results') = Len(results) + 1
                /\ SubSeq(results', 1, Len(results)) = results
                /\ lastId' = MsgId
                /\ attempt' = 0 /\ errors' = <<>>
             \/ /\ attempt = maxRetries - 1
                /\ results' = Append(results, Null)
                /\ lastId' = NullId
                /\ attempt' = 0 /\ errors' = <<>> ]_vars

\* all maxRetries calls of the last request of a batch have failed
C13_Witness ==
    /\ pc = "evaluate"
    /\ lastId = NullId
    /\ results[Len(results)] = Null

\* the waits of C14, in milliseconds: 2^k seconds after failed attempt k
DoublingWaits == <<1000, 2000, 4000, 8000>>

\* C14: the waits of a pending makeRequest are 1, 2, 4, 8 seconds, one after
\* each failed attempt k = 0..3, each double the one before; a wait is added
\* only by a failed attempt that is followed by another attempt, and none by
\* the first call, by a call that returns a response or by the failure of the
\* last (5th) attempt
C14_ExponentialBackoff ==
    /\ [] ( /\ Len(waits) = attempt
            /\ Len(waits) <= maxRetries - 1
            /\ \A k \in 1..Len(waits) :
                  /\ waits[k] = DoublingWaits[k]
                  /\ k > 1 => waits[k] = 2 * waits[k - 1] )
    /\ [][ /\ waits' # waits /\ waits' # <<>> =>
                /\ pc = "fetch" /\ results' = results
                /\ attempt < maxRetries - 1 /\ attempt' = attempt + 1
                /\ waits' = Append(waits, DoublingWaits[attempt + 1])
           /\ Len(results') = Len(results) + 1 => waits' = <<>> ]_vars

\* four attempts have failed and the fifth is pending
C14_Witness ==
    /\ pc = "fetch"
    /\ attempt = maxRetries - 1
    /\ waits = DoublingWaits

\* the pending request has been aborted
Aborted == \E k \in 1..Len(errors) : errors[k] = AbortError

\* C15: when a pending request is aborted the run goes to its terminal save
\* as Interrupted: it makes no further attempt, takes no further sample and
\* starts no new iteration
C15_AbortInterrupts ==
    [][ (~Aborted /\ Aborted') =>
          /\ outcome' = "Interrupted"
          /\ pc' = "catch"
          /\ attempt' = attempt
          /\ iteration' = iteration ]_vars

\* C16: a step that raises an exception inside the loop (the write of the
\* debug artifacts, or a save on a terminal path) takes the run to its catch
\* with the buffer as it is; the next step of the run is a save of that same
\* buffer, made before the run ends, and the buffer does not change after
\* the exception
C16_SaveAfterException ==
    [][ outcome' = "ErrorTerminated" =>
          /\ prefill' = prefill
          /\ IF outcome # "ErrorTerminated"
             THEN pc \in {"debug", "save"} /\ pc' = "catch"
             ELSE IF pc = "catch"
                  THEN /\ saveCalls' = Append(saveCalls, prefill)
                       /\ pc' \in {"finish", "done"}
                  ELSE saveCalls' = saveCalls /\ pc' = "done" ]_vars

\* the save of a terminal path threw after an append, and the catch saved again
C16_Witness ==
    /\ outcome = "ErrorTerminated"
    /\ pc = "done"
    /\ Len(appended) >= 1
    /\ Len(saveCalls) = 2
    /\ saveCalls[2] = prefill

\* C17: with the debug flag set, a run that has ended as InsufficientSamples,
\* NoConsensusTerminal, LoopDetected or MaxIterationsReached has written the
\* log transcript exactly once, after the save of the buffer (the error
\* outcome of the claim is left aside: there the catch's own save can fail)
C17_LogWrittenOnce ==
    (cfg.debug /\ pc = "done" /\ outcome \in NonFatal) =>
        logSaves = 1 /\ Len(saveCalls) = 1

\* C18: the appends number at most maxIterations and append k is made in
\* iteration k; the run is MaxIterationsReached only after maxIterations
\* appends, and after that many appends it is nothing else (unless its last
\* save throws) and requests no further batch
C18_IterationBound ==
    /\ Len(appended) <= cfg.maxIterations
    /\ Len(appended) = iteration - 1
    /\ outcome = "MaxIterationsReached" =>
          Len(appended) = cfg.maxIterations /\ pc \in {"save", "finish", "done"}
    /\ Len(appended) = cfg.maxIterations =>
          /\ outcome \in {"MaxIterationsReached", "ErrorTerminated"}
          /\ pc \notin {"fetch", "debug", "evaluate"}
    /\ (outcome = "ErrorTerminated" /\ Len(appended) = cfg.maxIterations) =>
          Len(saveCalls) >= 1

\* a run of MaxIter iterations, each ended by a consensus append
C18_Witness ==
    /\ outcome = "MaxIterationsReached"
    /\ pc = "done"
    /\ cfg.maxIterations = MaxIter
    /\ Len(appended) = MaxIter

\* C19: when no canonical form of the batch has a tally at or above the
\* threshold, findConsensus returns no consensus and, as count, the highest
\* tally over the canonical forms, which is 0 when every sample is absent
C19_TopCountReported ==
    \A k \in 1..Len(cres) :
       LET batch == cres[k].batch
           found == cres[k].found
       IN  MaxTally(batch) < cthreshold =>
              /\ found.consensus = Null
              /\ found.count = MaxTally(batch)
              /\ (\A i \in DOMAIN batch : batch[i].null) => found.count = 0

\* no consensus in a batch of three whose first form is not the most frequent
C19_Witness ==
    /\ Len(cres) >= 1
    /\ Len(cres[1].batch) = 3
    /\ cres[1].found.consensus = Null
    /\ cres[1].found.count = 2
    /\ Tally(cres[1].batch, 1) = 1

\* C20: every step that appends and advances to the next iteration makes the
\* buffer strictly longer; the empty text is never appended
C20_StrictGrowth ==
    [][ Len(appended') > Len(appended) =>
          /\ Len(prefill') > Len(prefill)
          /\ appended'[Len(appended')] # <<>> ]_vars

\* C20, amended: a step that appends and advances appends the consensus, which
\* is not empty, as normalized, trimmed to the word boundary and stripped of
\* leading whitespace; the buffer never gets shorter, and it gets longer
\* exactly when the trimmed consensus has a character that is not whitespace
C20_GrowthUnlessBlank ==
    [][ Len(appended') > Len(appended) =>
          /\ ConsensusReached
          /\ Candidate.text # <<>>
          /\ iteration' = iteration + 1
          /\ Len(prefill') = Len(prefill) + Len(appended'[Len(appended')])
          /\ Len(prefill') > Len(prefill)
                <=> WhiteSpaceAt(Trimmed(Candidate)) # 1..Len(Trimmed(Candidate)) ]_vars

\* the first iteration was used up by the append of nothing: the buffer is as
\* loaded and the second iteration has begun
C20_Witness ==
    /\ Len(appended) = 1
    /\ appended[1] = <<>>
    /\ iteration = 2
    /\ Len(saveCalls) = 0
    /\ prefill = loadPrefill(cfg.prefillFile)

\* C21: whenever a text t is appended to the buffer, it is not the case that
\* t has at least LoopMinLen (50) characters the first 50 of which occur in
\* the buffer as it was before the append
C21_NoDuplicateAppend ==
    [][ Len(appended') > Len(appended) =>
          LET t == appended'[Len(appended')]
          IN  ~( /\ Len(t) >= LoopMinLen
                 /\ Includes(prefill, SubSeq(t, 1, LoopMinLen)) ) ]_vars

\* C22: with positive maxIterations, maxTokens and minTokens, and every
\* request and file operation settling, the run ends; each adaptive retry
\* strictly lowers the token budget, which stays positive, so an iteration
\* makes at most as many retries as the budget has units
C22_Terminates ==
    /\ <>(pc = "done")
    /\ [][ retries' = retries + 1 =>
             /\ currentTokens' < currentTokens
             /\ currentTokens' >= 1
             /\ retries' < cfg.maxTokens ]_vars

\* a run has ended after two adaptive retries took the budget to its floor
C22_Witness ==
    /\ pc = "done"
    /\ outcome = "NoConsensusTerminal"
    /\ cfg.adaptive
    /\ retries = 2
    /\ currentTokens = cfg.minTokens
====
